---- MODULE Spec2Model ----
(***************************************************************************)
(* Model of src/deteccion_invoice.py: the numeral normaliser, the monetary *)
(* candidate extractor, the final-grade extractor and the two batch        *)
(* drivers.                                                                *)
(*                                                                         *)
(* A Python str is a sequence of one-character strings.  A Python float    *)
(* obtained from a decimal numeral is the exact decimal n / 10^k, kept in  *)
(* canonical form (no trailing zero in the fraction), so that equality of  *)
(* records is equality of the floats: the numerals of the model have at    *)
(* most 9 significant digits, far below the 15 a double tells apart.       *)
(***************************************************************************)
EXTENDS Integers, Sequences, FiniteSets, TLC

VARIABLES
    pc,         \* control point of the running entry point
    token,      \* argument of _normaliza_num
    valor,      \* value returned by _normaliza_num
    texto,      \* OCR text handed to an extractor
    montos,     \* local montos of procesar_factura
    notas,      \* local notas of procesar_boletin
    salida,     \* report lines printed so far, one record per line group
    carpetas,   \* state of each input folder on disk
    archivos,   \* per folder, the image files its listing kept
    ocr         \* per folder, what extraer_texto did for each file so far

vars == <<pc, token, valor, texto, montos, notas, salida, carpetas, archivos, ocr>>

-----------------------------------------------------------------------------
(* Bounds of the model                                                     *)

\* longest token handed to _normaliza_num on its own
MaxTokenLen == 5
\* most vocabulary pieces in an invoice text
MaxPiezas == 3
\* most vocabulary lines in a report-card text
MaxLineas == 3
\* most entries a folder listing holds
MaxArchivos == 4

-----------------------------------------------------------------------------
(* Python str primitives                                                   *)

DIGITS == <<"0", "1", "2", "3", "4", "5", "6", "7", "8", "9">>
LOWER == <<"a", "b", "c", "d", "e", "f", "g", "h", "i", "j", "k", "l", "m", "n", "o", "p", "q", "r", "s", "t", "u", "v", "w", "x", "y", "z">>
UPPER == <<"A", "B", "C", "D", "E", "F", "G", "H", "I", "J", "K", "L", "M", "N", "O", "P", "Q", "R", "S", "T", "U", "V", "W", "X", "Y", "Z">>
WHITESPACE == {" ", "\n", "\t", "\r"}

isdigit(c) == \E i \in 1..10 : DIGITS[i] = c

DigitVal(c) == (CHOOSE i \in 1..10 : DIGITS[i] = c) - 1

upper_char(c) ==
    IF \E i \in 1..26 : LOWER[i] = c
    THEN UPPER[CHOOSE i \in 1..26 : LOWER[i] = c]
    ELSE c

\* str.upper()
upper(s) == [i \in 1..Len(s) |-> upper_char(s[i])]

\* sub in s
contains(sub, s) ==
    \E i \in 0..(Len(s) - Len(sub)) : SubSeq(s, i + 1, i + Len(sub)) = sub

RECURSIVE lstrip(_)
lstrip(s) ==
    IF s # <<>> /\ s[1] \in WHITESPACE THEN lstrip(Tail(s)) ELSE s

RECURSIVE rstrip(_)
rstrip(s) ==
    IF s # <<>> /\ s[Len(s)] \in WHITESPACE
    THEN rstrip(SubSeq(s, 1, Len(s) - 1))
    ELSE s

\* str.strip()
strip(s) == rstrip(lstrip(s))

\* s.replace(old, new) for a one-character old; new is a str
RECURSIVE replace(_, _, _)
replace(s, old, new) ==
    IF s = <<>> THEN <<>>
    ELSE (IF s[1] = old THEN new ELSE <<s[1]>>) \o replace(Tail(s), old, new)

\* s.count(c) for a one-character c
count(s, c) == Cardinality({i \in 1..Len(s) : s[i] = c})

\* s.rfind(c) for a one-character c: 0-based index of the last one, or -1
rfind(s, c) ==
    IF \E i \in 1..Len(s) : s[i] = c
    THEN (CHOOSE i \in 1..Len(s) : s[i] = c /\ \A j \in (i + 1)..Len(s) : s[j] # c) - 1
    ELSE -1

\* s.split(c) for a one-character c
RECURSIVE split(_, _)
split(s, c) ==
    IF \A i \in 1..Len(s) : s[i] # c THEN <<s>>
    ELSE LET p == CHOOSE i \in 1..Len(s) : s[i] = c /\ \A j \in 1..(i - 1) : s[j] # c
         IN <<SubSeq(s, 1, p - 1)>> \o split(SubSeq(s, p + 1, Len(s)), c)

\* "".join(parts)
RECURSIVE join(_)
join(parts) ==
    IF parts = <<>> THEN <<>> ELSE parts[1] \o join(Tail(parts))

-----------------------------------------------------------------------------
(* Python float values: ent are the digits of the integer part without     *)
(* leading zeros, frac the digits of the fraction without trailing zeros.  *)

None == [ok |-> FALSE, ent |-> <<>>, frac |-> <<>>]

RECURSIVE LeadingZerosOff(_)
LeadingZerosOff(ds) ==
    IF ds # <<>> /\ ds[1] = "0" THEN LeadingZerosOff(Tail(ds)) ELSE ds

RECURSIVE TrailingZerosOff(_)
TrailingZerosOff(ds) ==
    IF ds # <<>> /\ ds[Len(ds)] = "0"
    THEN TrailingZerosOff(SubSeq(ds, 1, Len(ds) - 1))
    ELSE ds

Canon(e, f) ==
    [ok |-> TRUE, ent |-> LeadingZerosOff(e), frac |-> TrailingZerosOff(f)]

RECURSIVE DigitsValue(_)
DigitsValue(ds) ==
    IF ds = <<>> THEN 0
    ELSE 10 * DigitsValue(SubSeq(ds, 1, Len(ds) - 1)) + DigitVal(ds[Len(ds)])

RECURSIVE DecimalStr(_)
DecimalStr(n) ==
    IF n < 10 THEN <<DIGITS[n + 1]>>
    ELSE DecimalStr(n \div 10) \o <<DIGITS[(n % 10) + 1]>>

\* the float of an integer literal
FromNat(n) == Canon(DecimalStr(n), <<>>)

\* the digits of a value with its fraction padded to k digits
Padded(v, k) == v.ent \o [i \in 1..k |-> IF i <= Len(v.frac) THEN v.frac[i] ELSE "0"]

\* a < b on float values
Lt(a, b) ==
    IF Len(a.ent) # Len(b.ent) THEN Len(a.ent) < Len(b.ent)
    ELSE LET k == IF Len(a.frac) > Len(b.frac) THEN Len(a.frac) ELSE Len(b.frac)
             x == Padded(a, k)
             y == Padded(b, k)
         IN \E i \in 1..Len(x) :
                /\ DigitVal(x[i]) < DigitVal(y[i])
                /\ \A j \in 1..(i - 1) : x[j] = y[j]

\* a <= b on float values
Le(a, b) == a = b \/ Lt(a, b)

\* float(s) on a str of digits, '.', ',' and white space: the numerals are
\* digits with at most one '.', and at least one digit; anything else
\* raises ValueError, which the caller turns into None.
float(s) ==
    IF /\ \A i \in 1..Len(s) : isdigit(s[i]) \/ s[i] = "."
       /\ count(s, ".") <= 1
       /\ \E i \in 1..Len(s) : isdigit(s[i])
    THEN IF count(s, ".") = 1
         THEN Canon(SubSeq(s, 1, rfind(s, ".")), SubSeq(s, rfind(s, ".") + 2, Len(s)))
         ELSE Canon(s, <<>>)
    ELSE None

-----------------------------------------------------------------------------
(* _normaliza_num                                                          *)

_normaliza_num_sin_rfind(s0) ==
    LET s == replace(strip(s0), " ", <<>>) IN
    IF s = <<>> THEN None
    ELSE IF contains(<<",">>, s) /\ contains(<<".">>, s)
         THEN float(replace(s, ",", <<>>))
         ELSE IF contains(<<",">>, s) /\ count(s, ",") = 1
              THEN float(replace(s, ",", <<".">>))
              ELSE IF count(s, ".") > 1
                   THEN LET parts == split(s, ".")
                        IN float(join(SubSeq(parts, 1, Len(parts) - 1))
                                   \o <<".">> \o parts[Len(parts)])
                   ELSE float(s)

_normaliza_num(s0) ==
    LET s == replace(strip(s0), " ", <<>>) IN
    IF s = <<>> THEN None
    ELSE IF contains(<<",">>, s) /\ contains(<<".">>, s)
         THEN IF rfind(s, ",") > rfind(s, ".")
              THEN float(replace(replace(s, ".", <<>>), ",", <<".">>))
              ELSE float(replace(s, ",", <<>>))
         ELSE IF contains(<<",">>, s) /\ count(s, ",") = 1
              THEN float(replace(s, ",", <<".">>))
              ELSE IF count(s, ".") > 1
                   THEN LET parts == split(s, ".")
                        IN float(join(SubSeq(parts, 1, Len(parts) - 1))
                                   \o <<".">> \o parts[Len(parts)])
                   ELSE float(s)

-----------------------------------------------------------------------------
(* Regular expressions: re.findall scans left to right, takes at each      *)
(* position the first match in backtracking order, and resumes after it.   *)

issep(c) == c = "." \/ c = ","

\* \d{n} at 1-based position i of t
DigitsAt(t, i, n) ==
    i + n - 1 <= Len(t) /\ \A j \in i..(i + n - 1) : isdigit(t[j])

\* [.,]\d{n} at position i of t
SepDigitsAt(t, i, n) ==
    i <= Len(t) /\ issep(t[i]) /\ DigitsAt(t, i + 1, n)

\* \d{1,3}(?:[.,]\d{3})*(?:[.,]\d{2}) at i: the pairs <<n, g>> of a leading
\* digit count and a group count with which the first alternative matches
GroupedShapes(t, i) ==
    {ng \in (1..3) \X (0..(Len(t) \div 4)) :
        /\ DigitsAt(t, i, ng[1])
        /\ \A g \in 0..(ng[2] - 1) : SepDigitsAt(t, i + ng[1] + 4 * g, 3)
        /\ SepDigitsAt(t, i + ng[1] + 4 * ng[2], 2)}

\* \d+(?:[.,]\d{2}) at i: the digit counts with which the second one matches
SimpleShapes(t, i) ==
    {m \in 1..Len(t) : DigitsAt(t, i, m) /\ SepDigitsAt(t, i + m, 2)}

\* The position after the match of the money pattern at i, 0 when there is
\* none.  Quantifiers are greedy: the longest digit prefix first, then the
\* most groups; the second alternative is tried when the first fails.
MatchMonto(t, i) ==
    IF ~DigitsAt(t, i, 1) THEN 0
    ELSE IF GroupedShapes(t, i) # {}
    THEN LET n == CHOOSE n \in 1..3 :
                    /\ \E ng \in GroupedShapes(t, i) : ng[1] = n
                    /\ \A ng \in GroupedShapes(t, i) : ng[1] <= n
             g == CHOOSE g \in 0..(Len(t) \div 4) :
                    /\ <<n, g>> \in GroupedShapes(t, i)
                    /\ \A ng \in GroupedShapes(t, i) : ng[1] = n => ng[2] <= g
         IN i + n + 4 * g + 3
    ELSE IF SimpleShapes(t, i) # {}
    THEN LET m == CHOOSE m \in SimpleShapes(t, i) :
                    \A m2 \in SimpleShapes(t, i) : m2 <= m
         IN i + m + 3
    ELSE 0

\* The position after the match of \d{1,3}(?:[.,]\d{1,2})? at i, 0 when none
MatchNumero(t, i) ==
    IF ~DigitsAt(t, i, 1) THEN 0
    ELSE LET n == CHOOSE n \in 1..3 :
                    DigitsAt(t, i, n) /\ \A n2 \in (n + 1)..3 : ~DigitsAt(t, i, n2)
         IN IF SepDigitsAt(t, i + n, 2) THEN i + n + 3
            ELSE IF SepDigitsAt(t, i + n, 1) THEN i + n + 2
            ELSE i + n

\* re.findall(patron, t) from position i on, patron being the money pattern
RECURSIVE FindallMontos(_, _)
FindallMontos(t, i) ==
    IF i > Len(t) THEN <<>>
    ELSE LET e == MatchMonto(t, i)
         IN IF e = 0 THEN FindallMontos(t, i + 1)
            ELSE <<SubSeq(t, i, e - 1)>> \o FindallMontos(t, e)

\* re.findall of the grade number pattern
RECURSIVE FindallNumeros(_, _)
FindallNumeros(t, i) ==
    IF i > Len(t) THEN <<>>
    ELSE LET e == MatchNumero(t, i)
         IN IF e = 0 THEN FindallNumeros(t, i + 1)
            ELSE <<SubSeq(t, i, e - 1)>> \o FindallNumeros(t, e)

-----------------------------------------------------------------------------
(* Invoices                                                                *)

TOTAL_PATTERNS ==
    << <<"T", "O", "T", "A", "L">>,
       <<"T", "o", "t", "a", "l">>,
       <<"A", "m", "o", "u", "n", "t", " ", "D", "u", "e">>,
       <<"A", "M", "O", "U", "N", "T", " ", "D", "U", "E">>,
       <<"G", "r", "a", "n", "d", " ", "T", "o", "t", "a", "l">>,
       <<"G", "R", "A", "N", "D", " ", "T", "O", "T", "A", "L">>,
       <<"I", "m", "p", "o", "r", "t", "e", " ", "T", "o", "t", "a", "l">>,
       <<"I", "M", "P", "O", "R", "T", "E", " ", "T", "O", "T", "A", "L">>,
       <<"T", "o", "t", "a", "l", " ", "a", " ", "p", "a", "g", "a", "r">>,
       <<"T", "O", "T", "A", "L", " ", "A", " ", "P", "A", "G", "A", "R">> >>

\* how many amounts procesar_factura lists: montos[:15]
MaxListados == 15

\* list.sort() on floats: insertion of x into the sorted list l
RECURSIVE Insert(_, _)
Insert(x, l) ==
    IF l = <<>> THEN <<x>>
    ELSE IF Lt(x, l[1]) THEN <<x>> \o l
    ELSE <<l[1]>> \o Insert(x, Tail(l))

RECURSIVE sort(_)
sort(l) == IF l = <<>> THEN <<>> ELSE Insert(l[1], sort(Tail(l)))

\* the loop of buscar_montos over brutos, with its vistos and montos
RECURSIVE MontosLoop(_, _, _)
MontosLoop(brutos, vistos, ms) ==
    IF brutos = <<>> THEN ms
    ELSE LET val == _normaliza_num(brutos[1])
         IN IF ~val.ok THEN MontosLoop(Tail(brutos), vistos, ms)
            ELSE IF val \notin vistos
                 THEN MontosLoop(Tail(brutos), vistos \cup {val}, Append(ms, val))
                 ELSE MontosLoop(Tail(brutos), vistos, ms)

buscar_montos_sin_sort(t) == MontosLoop(FindallMontos(t, 1), {}, <<>>)

buscar_montos(t) == sort(MontosLoop(FindallMontos(t, 1), {}, <<>>))

_hay_total_sin_upper(t) ==
    \E i \in 1..Len(TOTAL_PATTERNS) : contains(upper(TOTAL_PATTERNS[i]), t)

_hay_total(t0) ==
    LET t == upper(t0)
    IN \E i \in 1..Len(TOTAL_PATTERNS) : contains(upper(TOTAL_PATTERNS[i]), t)

\* montos[:n]
Prefix(l, n) == SubSeq(l, 1, IF Len(l) < n THEN Len(l) ELSE n)

\* What procesar_factura prints for one file.  r is what extraer_texto did:
\* r.raises when it raised, r.texto the OCR text otherwise.
procesar_factura(r) ==
    IF r.raises
    THEN [tipo |-> "error", cantidades |-> <<>>, elipsis |-> FALSE, candidato |-> None]
    ELSE LET t == strip(r.texto)
             ms == buscar_montos(t)
         IN IF _hay_total(t) /\ ms # <<>>
            THEN [tipo |-> "total", cantidades |-> Prefix(ms, MaxListados),
                  elipsis |-> Len(ms) > MaxListados, candidato |-> ms[Len(ms)]]
            ELSE IF ms # <<>>
                 THEN [tipo |-> "sin_total", cantidades |-> Prefix(ms, MaxListados),
                       elipsis |-> FALSE, candidato |-> None]
                 ELSE [tipo |-> "sin_montos", cantidades |-> <<>>,
                       elipsis |-> FALSE, candidato |-> None]

-----------------------------------------------------------------------------
(* Report cards                                                            *)

NOTA_FINAL_KEYS ==
    << <<"N", "O", "T", "A", " ", "F", "I", "N", "A", "L">>,
       <<"N", "o", "t", "a", " ", "F", "i", "n", "a", "l">>,
       <<"N", "o", "t", "a", " ", "f", "i", "n", "a", "l">>,
       <<"N", "O", "T", "A", " ", " ", "F", "I", "N", "A", "L">>,
       <<"F", "I", "N", "A", "L">>,
       <<"N", ".", " ", "F", "I", "N", "A", "L">> >>

OBSERVACIONES == <<"O", "B", "S", "E", "R", "V", "A", "C", "I", "O", "N", "E", "S">>

\* 0.0 <= val <= 100.0 in _extrae_ult_num_0_100
RANGO_MIN == 0
RANGO_MAX == 100
\* 30.0 <= n <= 100.0 in buscar_notas_finales
NOTA_MIN == 30
NOTA_MAX == 100

en_rango(v, lo, hi) == Le(FromNat(lo), v) /\ Le(v, FromNat(hi))

_es_linea_cabecera_notas_sin_observaciones(ln) ==
    LET up == upper(ln)
    IN /\ \E i \in 1..Len(NOTA_FINAL_KEYS) : contains(NOTA_FINAL_KEYS[i], up)
       /\ ~contains(OBSERVACIONES, up)

_es_linea_cabecera_notas(ln) ==
    LET up == upper(ln)
    IN \E i \in 1..Len(NOTA_FINAL_KEYS) : contains(NOTA_FINAL_KEYS[i], up)

\* for num in reversed(numeros): the first value within 0..100
RECURSIVE ExtraeLoop(_)
ExtraeLoop(numeros) ==
    IF numeros = <<>> THEN None
    ELSE LET val == _normaliza_num(numeros[Len(numeros)])
         IN IF val.ok /\ en_rango(val, RANGO_MIN, RANGO_MAX) THEN val
            ELSE ExtraeLoop(SubSeq(numeros, 1, Len(numeros) - 1))

\* the same loop walking the numbers from the left
RECURSIVE ExtraeLoopPrimero(_)
ExtraeLoopPrimero(numeros) ==
    IF numeros = <<>> THEN None
    ELSE LET val == _normaliza_num(numeros[1])
         IN IF val.ok /\ en_rango(val, RANGO_MIN, RANGO_MAX) THEN val
            ELSE ExtraeLoopPrimero(Tail(numeros))

_extrae_primer_num_0_100(ln) == ExtraeLoopPrimero(FindallNumeros(ln, 1))

_extrae_ult_num_0_100(ln) == ExtraeLoop(FindallNumeros(ln, 1))

\* str.splitlines() for the line breaks "\n", "\r" and "\r\n"
RECURSIVE splitlines(_)
splitlines(t) ==
    IF t = <<>> THEN <<>>
    ELSE IF \A i \in 1..Len(t) : t[i] \notin {"\n", "\r"} THEN <<t>>
    ELSE LET p == CHOOSE i \in 1..Len(t) :
                    t[i] \in {"\n", "\r"} /\ \A j \in 1..(i - 1) : t[j] \notin {"\n", "\r"}
             q == IF t[p] = "\r" /\ p < Len(t) /\ t[p + 1] = "\n" THEN p + 1 ELSE p
         IN <<SubSeq(t, 1, p - 1)>> \o splitlines(SubSeq(t, q + 1, Len(t)))

\* start_idx: the 1-based index of the first header line, 0 for None
StartIdx(lineas) ==
    IF \E i \in 1..Len(lineas) : _es_linea_cabecera_notas(lineas[i])
    THEN CHOOSE i \in 1..Len(lineas) :
            /\ _es_linea_cabecera_notas(lineas[i])
            /\ \A j \in 1..(i - 1) : ~_es_linea_cabecera_notas(lineas[j])
    ELSE 0

\* the scan the two for loops over the lines share, from line i on
RECURSIVE ScanLoop(_, _, _)
ScanLoop(lineas, i, ns) ==
    IF i > Len(lineas) THEN ns
    ELSE LET s == strip(lineas[i])
         IN IF s = <<>> THEN ScanLoop(lineas, i + 1, ns)
            ELSE IF contains(OBSERVACIONES, upper(s)) THEN ns
            ELSE LET v == _extrae_ult_num_0_100(s)
                 IN ScanLoop(lineas, i + 1, IF v.ok THEN Append(ns, v) ELSE ns)

\* [n for n in notas if 30.0 <= n <= 100.0]
FiltraNotas(ns) == SelectSeq(ns, LAMBDA n : en_rango(n, NOTA_MIN, NOTA_MAX))

\* hundredths of a value with at most two decimals
Centesimas(v) == DigitsValue(Padded(v, 2))

\* round(n, 2) on a value of 0..100: one with at most two decimals is its
\* own rounding (the number pattern yields no other); beyond that the
\* nearest hundredth, ties to even
round2(v) ==
    IF Len(v.frac) <= 2 THEN v
    ELSE LET q == DigitsValue(v.ent \o SubSeq(v.frac, 1, 2))
             rest == SubSeq(v.frac, 3, Len(v.frac))
             up == \/ DigitVal(rest[1]) > 5
                   \/ DigitVal(rest[1]) = 5 /\ (Len(rest) > 1 \/ q % 2 = 1)
             r == IF up THEN q + 1 ELSE q
         IN Canon(DecimalStr(r \div 100),
                  <<DIGITS[((r % 100) \div 10) + 1], DIGITS[(r % 10) + 1]>>)

RECURSIVE DedupLoop(_, _, _)
DedupLoop(ns, vistos, limpias) ==
    IF ns = <<>> THEN limpias
    ELSE LET key == round2(ns[1])
         IN IF key \notin vistos
            THEN DedupLoop(Tail(ns), vistos \cup {key}, Append(limpias, ns[1]))
            ELSE DedupLoop(Tail(ns), vistos, limpias)

buscar_notas_finales_desde_cabecera(t) ==
    LET lineas == splitlines(t)
        start_idx == StartIdx(lineas)
    IN IF lineas = <<>> THEN <<>>
       ELSE IF start_idx = 0
            THEN FiltraNotas(ScanLoop(lineas, 1, <<>>))
            ELSE DedupLoop(FiltraNotas(ScanLoop(lineas, start_idx, <<>>)), {}, <<>>)

buscar_notas_finales_sin_filtro(t) ==
    LET lineas == splitlines(t)
        start_idx == StartIdx(lineas)
    IN IF lineas = <<>> THEN <<>>
       ELSE IF start_idx = 0
            THEN ScanLoop(lineas, 1, <<>>)
            ELSE DedupLoop(FiltraNotas(ScanLoop(lineas, start_idx + 1, <<>>)), {}, <<>>)

buscar_notas_finales(t) ==
    LET lineas == splitlines(t)
        start_idx == StartIdx(lineas)
    IN IF lineas = <<>> THEN <<>>
       ELSE IF start_idx = 0
            THEN FiltraNotas(ScanLoop(lineas, 1, <<>>))
            ELSE DedupLoop(FiltraNotas(ScanLoop(lineas, start_idx + 1, <<>>)), {}, <<>>)

\* sum(notas), in hundredths: the grades have at most two decimals
RECURSIVE sum(_)
sum(ns) == IF ns = <<>> THEN 0 ELSE Centesimas(ns[1]) + sum(Tail(ns))

\* What procesar_boletin prints for one file; the mean is the quotient of
\* suma (in hundredths) by cuenta.
procesar_boletin(r) ==
    IF r.raises
    THEN [tipo |-> "error", notas |-> <<>>, suma |-> 0, cuenta |-> 0]
    ELSE LET ns == buscar_notas_finales(r.texto)
         IN IF ns # <<>>
            THEN [tipo |-> "notas", notas |-> ns, suma |-> sum(ns), cuenta |-> Len(ns)]
            ELSE [tipo |-> "sin_notas", notas |-> <<>>, suma |-> 0, cuenta |-> 0]

-----------------------------------------------------------------------------
(* Batch drivers                                                           *)

CARPETA_FACTURAS == "FACTURAS"
CARPETA_CALIFICACIONES == "CALIFICACIONES"
Carpetas == {CARPETA_FACTURAS, CARPETA_CALIFICACIONES}

\* a folder is there, is missing (os.listdir raises FileNotFoundError), or
\* cannot be listed (os.listdir raises another OSError)
EstadosCarpeta == {"existe", "falta", "ilegible"}

EXTENSIONES == {<<".", "p", "n", "g">>, <<".", "j", "p", "g">>, <<".", "j", "p", "e", "g">>}

lower_char(c) ==
    IF \E i \in 1..26 : UPPER[i] = c
    THEN LOWER[CHOOSE i \in 1..26 : UPPER[i] = c]
    ELSE c

\* str.lower()
lower(s) == [i \in 1..Len(s) |-> lower_char(s[i])]

\* s.endswith(suf)
endswith(s, suf) ==
    Len(suf) <= Len(s) /\ SubSeq(s, Len(s) - Len(suf) + 1, Len(s)) = suf

\* [a for a in os.listdir(...) if a.lower().endswith((".png", ".jpg", ".jpeg"))]
Imagenes(listado) ==
    SelectSeq(listado, LAMBDA a : \E e \in EXTENSIONES : endswith(lower(a), e))

Aviso(carpeta, tipo) ==
    [carpeta |-> carpeta, archivo |-> <<>>, informe |-> [tipo |-> tipo]]

\* without the try/except what extraer_texto raises reaches the caller
EscapaSinExcept(r) == r.raises

\* the try/except of procesar_factura and procesar_boletin: except Exception
\* catches what extraer_texto raises, so nothing escapes to the caller
Escapa(r) == FALSE

\* correr_facturas / correr_calificaciones up to the for loop; siguiente is
\* where main goes on when the function returns early
Correr(carpeta, bucle, siguiente, listado) ==
    LET imgs == Imagenes(listado)
        revisando == Append(salida, Aviso(carpeta, "revisando"))
    IN /\ UNCHANGED <<token, valor, texto, montos, notas, carpetas, ocr>>
       /\ IF carpetas[carpeta] = "falta"
          THEN /\ salida' = Append(revisando, Aviso(carpeta, "carpeta_no_existe"))
               /\ pc' = siguiente
               /\ UNCHANGED archivos
          ELSE IF carpetas[carpeta] = "ilegible"
          THEN /\ salida' = revisando
               /\ pc' = "abortado"
               /\ UNCHANGED archivos
          ELSE IF imgs = <<>>
          THEN /\ salida' = Append(revisando, Aviso(carpeta, "sin_imagenes"))
               /\ pc' = siguiente
               /\ UNCHANGED archivos
          ELSE /\ salida' = revisando
               /\ pc' = bucle
               /\ archivos' = [archivos EXCEPT ![carpeta] = imgs]

\* one iteration of the for loop of correr_facturas: procesar_factura on the
\* next file, r being what extraer_texto does for it
ProcesarFactura(r) ==
    LET i == Len(ocr[CARPETA_FACTURAS]) + 1
        archivo == archivos[CARPETA_FACTURAS][i]
    IN /\ pc = "facturas"
       /\ ocr' = [ocr EXCEPT ![CARPETA_FACTURAS] = Append(@, r)]
       /\ UNCHANGED <<token, valor, notas, carpetas, archivos>>
       /\ IF r.raises /\ Escapa(r)
          THEN /\ pc' = "abortado"
               /\ UNCHANGED <<texto, montos, salida>>
          ELSE /\ texto' = IF r.raises THEN texto ELSE strip(r.texto)
               /\ montos' = IF r.raises THEN montos ELSE buscar_montos(strip(r.texto))
               /\ salida' = Append(salida, [carpeta |-> CARPETA_FACTURAS,
                                            archivo |-> archivo,
                                            informe |-> procesar_factura(r)])
               /\ pc' = IF i = Len(archivos[CARPETA_FACTURAS])
                        THEN "correr_calificaciones" ELSE "facturas"

\* one iteration of the for loop of correr_calificaciones
ProcesarBoletin(r) ==
    LET i == Len(ocr[CARPETA_CALIFICACIONES]) + 1
        archivo == archivos[CARPETA_CALIFICACIONES][i]
    IN /\ pc = "calificaciones"
       /\ ocr' = [ocr EXCEPT ![CARPETA_CALIFICACIONES] = Append(@, r)]
       /\ UNCHANGED <<token, valor, montos, carpetas, archivos>>
       /\ IF r.raises /\ Escapa(r)
          THEN /\ pc' = "abortado"
               /\ UNCHANGED <<texto, notas, salida>>
          ELSE /\ texto' = IF r.raises THEN texto ELSE r.texto
               /\ notas' = IF r.raises THEN notas ELSE buscar_notas_finales(r.texto)
               /\ salida' = Append(salida, [carpeta |-> CARPETA_CALIFICACIONES,
                                            archivo |-> archivo,
                                            informe |-> procesar_boletin(r)])
               /\ pc' = IF i = Len(archivos[CARPETA_CALIFICACIONES])
                        THEN "fin" ELSE "calificaciones"

-----------------------------------------------------------------------------
(* Inputs                                                                  *)

Raises == [raises |-> TRUE, texto |-> <<>>]
Texto(t) == [raises |-> FALSE, texto |-> t]

\* tokens of the numeral normaliser
TokenChars == {"0", "7", ".", ",", " "}

Tok_1_234_56_es == <<"1", ".", "2", "3", "4", ",", "5", "6">>
Tok_1_234_56_us == <<"1", ",", "2", "3", "4", ".", "5", "6">>
Tok_98_0 == <<"9", "8", ",", "0">>
Tok_12_3_456 == <<"1", "2", ".", "3", ".", "4", "5", "6">>
Tok_two_commas == <<"1", ",", "2", "3", "4", ",", "5", "6">>

Tokens ==
    UNION {[1..n -> TokenChars] : n \in 0..MaxTokenLen}
    \cup {Tok_1_234_56_es, Tok_1_234_56_us, Tok_98_0, Tok_12_3_456, Tok_two_commas}

\* invoice texts: up to MaxPiezas pieces of a vocabulary, one after another
P_Total == <<"T", "o", "t", "a", "l", ":", " ", "$">>
P_1200_us == <<"1", ",", "2", "0", "0", ".", "0", "0">>
P_and == <<" ", "a", "n", "d", " ">>
P_50 == <<"5", "0", ".", "0", "0">>
P_75 == <<"7", "5", ".", "2", "5">>
P_space == <<" ">>
P_total_min == <<"t", "o", "t", "a", "l", " ">>
P_bad == <<"1", ",", "2", "3", "4", ",", "5", "6">>
P_1200_es == <<"1", ".", "2", "0", "0", ",", "0", "0">>

Piezas == {P_Total, P_1200_us, P_and, P_50, P_total_min, P_bad, P_1200_es}

\* "1.00 2.00 ... n.00 "
RECURSIVE ListaLarga(_)
ListaLarga(n) ==
    IF n = 0 THEN <<>>
    ELSE ListaLarga(n - 1) \o DecimalStr(n) \o <<".", "0", "0", " ">>

Ej_Total == P_Total \o P_1200_us \o P_and \o P_50
Ej_SinTotal == P_50 \o P_space \o P_75
Ej_Descarte == P_bad \o P_and \o P_1200_us \o P_50
Ej_Largo == ListaLarga(MaxListados + 1)
Ej_LargoTotal == <<"T", "O", "T", "A", "L", " ">> \o ListaLarga(MaxListados + 1)
Ej_Justo == <<"T", "O", "T", "A", "L", " ">> \o ListaLarga(MaxListados)

TextosFactura ==
    {join(f) : f \in UNION {[1..n -> Piezas] : n \in 0..MaxPiezas}}
    \cup {Ej_Total, Ej_SinTotal, Ej_Descarte, Ej_Largo, Ej_LargoTotal, Ej_Justo}

\* report-card texts: up to MaxLineas lines of a vocabulary
L_cabecera == <<"N", "O", "T", "A", " ", "F", "I", "N", "A", "L">>
L_math == <<"M", "a", "t", "h", " ", "0", "1", " ", "8", "5">>
L_science == <<"S", "c", "i", "e", "n", "c", "e", " ", "0", "2", " ", "9", "1">>
L_obs == <<"O", "B", "S", "E", "R", "V", "A", "C", "I", "O", "N", "E", "S", ":", " ", "g", "o", "o", "d">>
L_obs_finales == <<"O", "B", "S", "E", "R", "V", "A", "C", "I", "O", "N", "E", "S", " ", "F", "I", "N", "A", "L", "E", "S">>
L_blanca == <<" ">>
L_85_12 == <<"8", "5", " ", "1", "2">>
L_lengua == <<"L", "e", "n", "g", "u", "a", " ", "9", "0">>
L_id == <<"C", "o", "d", "i", "g", "o", " ", "1", "2", "3", "4", "5">>
L_cabecera_min == <<"N", "o", "t", "a", " ", "f", "i", "n", "a", "l", " ", "7", "7", ",", "5">>
L_anio == <<"2", "0", "2", "3", " ", "2", "5">>

Lineas == {L_cabecera, L_math, L_obs, L_obs_finales, L_blanca, L_85_12,
           L_lengua, L_id, L_cabecera_min, L_anio}

\* "\n".join(lineas)
RECURSIVE JoinLines(_)
JoinLines(ls) ==
    IF ls = <<>> THEN <<>>
    ELSE IF Len(ls) = 1 THEN ls[1]
    ELSE ls[1] \o <<"\n">> \o JoinLines(Tail(ls))

Ej_Boletin == JoinLines(<<L_cabecera, L_math, L_science, L_obs>>)

TextosBoletin ==
    {JoinLines(f) : f \in UNION {[1..n -> Lineas] : n \in 0..MaxLineas}}
    \cup {Ej_Boletin}

\* folder listings: the first entries of a directory whose i-th entry is
\* named i with the extensions .png, .txt, .JPG, .jpeg in turn
EXTS_DIRECTORIO == << <<".", "p", "n", "g">>, <<".", "t", "x", "t">>,
                      <<".", "J", "P", "G">>, <<".", "j", "p", "e", "g">> >>

Entrada(i) == DecimalStr(i) \o EXTS_DIRECTORIO[((i - 1) % 4) + 1]

Listados == {[i \in 1..n |-> Entrada(i)] : n \in 0..MaxArchivos}

\* what extraer_texto does for a file of a batch
OcrFacturas == {Raises, Texto(Ej_Total), Texto(<<>>)}
OcrBoletines == {Raises, Texto(Ej_Boletin), Texto(<<>>)}

-----------------------------------------------------------------------------
(* Specifications                                                          *)

Vacio == [c \in Carpetas |-> <<>>]

\* main(): both batch runs, every state of the two folders
Init ==
    /\ pc = "correr_facturas"
    /\ token = <<>>
    /\ valor = None
    /\ texto = <<>>
    /\ montos = <<>>
    /\ notas = <<>>
    /\ salida = <<>>
    /\ carpetas \in [Carpetas -> EstadosCarpeta]
    /\ archivos = Vacio
    /\ ocr = Vacio

CorrerFacturas ==
    /\ pc = "correr_facturas"
    /\ \E listado \in Listados :
          Correr(CARPETA_FACTURAS, "facturas", "correr_calificaciones", listado)

CorrerCalificaciones ==
    /\ pc = "correr_calificaciones"
    /\ \E listado \in Listados :
          Correr(CARPETA_CALIFICACIONES, "calificaciones", "fin", listado)

FacturaDelLote == \E r \in OcrFacturas : ProcesarFactura(r)

BoletinDelLote == \E r \in OcrBoletines : ProcesarBoletin(r)

Next == CorrerFacturas \/ FacturaDelLote \/ CorrerCalificaciones \/ BoletinDelLote

Spec == Init /\ [][Next]_vars

\* _normaliza_num on every token
InitNorm ==
    /\ pc = "normaliza"
    /\ token \in Tokens
    /\ valor = None
    /\ texto = <<>>
    /\ montos = <<>>
    /\ notas = <<>>
    /\ salida = <<>>
    /\ carpetas = [c \in Carpetas |-> "existe"]
    /\ archivos = Vacio
    /\ ocr = Vacio

NormalizaNum ==
    /\ pc = "normaliza"
    /\ valor' = _normaliza_num(token)
    /\ pc' = "normalizado"
    /\ UNCHANGED <<token, texto, montos, notas, salida, carpetas, archivos, ocr>>

NextNorm == NormalizaNum

SpecNorm == InitNorm /\ [][NextNorm]_vars

\* procesar_factura on one file, over every invoice text
InitFactura ==
    /\ pc = "facturas"
    /\ token = <<>>
    /\ valor = None
    /\ texto = <<>>
    /\ montos = <<>>
    /\ notas = <<>>
    /\ salida = <<>>
    /\ carpetas = [c \in Carpetas |-> "existe"]
    /\ archivos = [Vacio EXCEPT ![CARPETA_FACTURAS] = <<<<"a", ".", "p", "n", "g">>>>]
    /\ ocr = Vacio

UnaFactura == \E t \in TextosFactura : ProcesarFactura(Texto(t))

NextFactura == UnaFactura

SpecFactura == InitFactura /\ [][NextFactura]_vars

\* procesar_boletin on one file, over every report-card text
InitBoletin ==
    /\ pc = "calificaciones"
    /\ token = <<>>
    /\ valor = None
    /\ texto = <<>>
    /\ montos = <<>>
    /\ notas = <<>>
    /\ salida = <<>>
    /\ carpetas = [c \in Carpetas |-> "existe"]
    /\ archivos = [Vacio EXCEPT ![CARPETA_CALIFICACIONES] = <<<<"a", ".", "p", "n", "g">>>>]
    /\ ocr = Vacio

UnBoletin == \E t \in TextosBoletin : ProcesarBoletin(Texto(t))

NextBoletin == UnBoletin

SpecBoletin == InitBoletin /\ [][NextBoletin]_vars

-----------------------------------------------------------------------------
(* C1                                                                      *)

\* The token without its spaces (rule 1).
C1Stripped(tok) == SelectSeq(tok, LAMBDA c : c # " ")

C1Last(s, c) == CHOOSE i \in 0..Len(s) :
    /\ i > 0 => s[i] = c
    /\ \A j \in (i + 1)..Len(s) : s[j] # c

\* Rules 2-5: the position in s of the character that stands for the decimal
\* point, 0 when s has none.
C1DecimalPos(s) ==
    LET d == C1Last(s, ".")
        c == C1Last(s, ",")
    IN IF d > 0 /\ c > 0 THEN (IF c > d THEN c ELSE d)
       ELSE IF c > 0 THEN c
       ELSE d

\* Rules 2-5: the positions of s that are grouping separators, removed.
C1Removed(s) ==
    LET d == C1Last(s, ".")
        c == C1Last(s, ",")
    IN IF d > 0 /\ c > 0
       THEN {i \in 1..Len(s) : s[i] = (IF c > d THEN "." ELSE ",")}
       ELSE IF c > 0 THEN {}
       ELSE {i \in 1..Len(s) : s[i] = "." /\ i # d}

\* Rule 6: what is left is a decimal numeral when it has a digit and, apart
\* from the decimal point, only digits; its value has the digits before the
\* decimal point as integer part and those after it as fraction.
C1Expected(tok) ==
    LET s == C1Stripped(tok)
        p == C1DecimalPos(s)
        gone == C1Removed(s)
        digs == {i \in 1..Len(s) : isdigit(s[i])}
        before == SelectSeq([i \in 1..Len(s) |-> IF i \in digs /\ (p = 0 \/ i < p) THEN s[i] ELSE "x"], isdigit)
        after == SelectSeq([i \in 1..Len(s) |-> IF i \in digs /\ p > 0 /\ i > p THEN s[i] ELSE "x"], isdigit)
    IN IF /\ digs # {}
          /\ \A i \in 1..Len(s) : i \in digs \/ i \in gone \/ i = p
       THEN Canon(before, after)
       ELSE None

V_1234_56 == [ok |-> TRUE, ent |-> <<"1", "2", "3", "4">>, frac |-> <<"5", "6">>]
V_98 == [ok |-> TRUE, ent |-> <<"9", "8">>, frac |-> <<>>]
V_123_456 == [ok |-> TRUE, ent |-> <<"1", "2", "3">>, frac |-> <<"4", "5", "6">>]

\* C1: for every token of digits, '.', ',' and spaces _normaliza_num returns
\* what rules 1-6 prescribe: the later of '.' and ',' is the decimal
\* separator and the other is removed, a lone ',' is the decimal separator,
\* of several '.' only the last is kept, and a token whose rewritten form is
\* no decimal numeral gives None.
C1_NormalizaFollowsRules ==
    pc = "normalizado" =>
        /\ valor = C1Expected(token)
        /\ token = Tok_1_234_56_es => valor = V_1234_56
        /\ token = Tok_1_234_56_us => valor = V_1234_56
        /\ token = Tok_98_0 => valor = V_98
        /\ token = Tok_12_3_456 => valor = V_123_456
        /\ token = Tok_two_commas => valor = None
        /\ C1Stripped(token) = <<>> => valor = None

C1_Witness ==
    /\ pc = "normalizado"
    /\ token = Tok_1_234_56_es
    /\ valor = V_1234_56

-----------------------------------------------------------------------------
(* Helpers of the claims on the extractors                                 *)

Range(l) == {l[i] : i \in 1..Len(l)}

\* a is b with some of its elements left out
RECURSIVE IsSubseq(_, _)
IsSubseq(a, b) ==
    IF a = <<>> THEN TRUE
    ELSE IF b = <<>> THEN FALSE
    ELSE IF a[1] = b[1] THEN IsSubseq(Tail(a), Tail(b))
    ELSE IsSubseq(a, Tail(b))

UltimaFactura == ocr[CARPETA_FACTURAS][Len(ocr[CARPETA_FACTURAS])]
FacturaLeida == ocr[CARPETA_FACTURAS] # <<>> /\ ~UltimaFactura.raises
UltimoBoletin == ocr[CARPETA_CALIFICACIONES][Len(ocr[CARPETA_CALIFICACIONES])]
BoletinLeido == ocr[CARPETA_CALIFICACIONES] # <<>> /\ ~UltimoBoletin.raises
UltimoInforme == salida[Len(salida)].informe

V_50 == [ok |-> TRUE, ent |-> <<"5", "0">>, frac |-> <<>>]
V_1200 == [ok |-> TRUE, ent |-> <<"1", "2", "0", "0">>, frac |-> <<>>]
V_16 == [ok |-> TRUE, ent |-> <<"1", "6">>, frac |-> <<>>]
V_30 == [ok |-> TRUE, ent |-> <<"3", "0">>, frac |-> <<>>]
V_75_25 == [ok |-> TRUE, ent |-> <<"7", "5">>, frac |-> <<"2", "5">>]
V_85 == [ok |-> TRUE, ent |-> <<"8", "5">>, frac |-> <<>>]
V_90 == [ok |-> TRUE, ent |-> <<"9", "0">>, frac |-> <<>>]
V_91 == [ok |-> TRUE, ent |-> <<"9", "1">>, frac |-> <<>>]
V_100 == [ok |-> TRUE, ent |-> <<"1", "0", "0">>, frac |-> <<>>]

-----------------------------------------------------------------------------
(* C2                                                                      *)

\* C2: the list buscar_montos returns is strictly ascending, whatever the
\* order of the amounts in the text, and holds exactly the values of the
\* money-shaped matches that normalise; a match that does not normalise is
\* dropped and the scan goes on.
C2_MontosAscendingDistinct ==
    FacturaLeida =>
        /\ \A i \in 1..(Len(montos) - 1) : Lt(montos[i], montos[i + 1])
        /\ Range(montos) =
              {v \in {_normaliza_num(b) : b \in Range(FindallMontos(texto, 1))} : v.ok}
        /\ texto = Ej_Total => montos = <<V_50, V_1200>>
        /\ texto = Ej_SinTotal => montos = <<V_50, V_75_25>>

\* the unparseable "1,234,56", then "1,200.00", then "50.00"
C2_Witness ==
    /\ FacturaLeida
    /\ texto = Ej_Descarte
    /\ \E b \in Range(FindallMontos(texto, 1)) : ~_normaliza_num(b).ok
    /\ montos = <<V_50, V_1200>>

-----------------------------------------------------------------------------
(* C3                                                                      *)

C3Keywords ==
    { <<"T", "O", "T", "A", "L">>,
      <<"A", "M", "O", "U", "N", "T", " ", "D", "U", "E">>,
      <<"G", "R", "A", "N", "D", " ", "T", "O", "T", "A", "L">>,
      <<"I", "M", "P", "O", "R", "T", "E", " ", "T", "O", "T", "A", "L">>,
      <<"T", "O", "T", "A", "L", " ", "A", " ", "P", "A", "G", "A", "R">> }

C3Flag == \E kw \in C3Keywords : contains(kw, upper(UltimaFactura.texto))

C3Listed == SubSeq(montos, 1, IF Len(montos) > 15 THEN 15 ELSE Len(montos))

\* C3: for a document that was read, procesar_factura reports exactly one of
\* three outcomes, decided by the keyword flag and the candidates: a total
\* candidate, the maximum of all candidates (also beyond the 15 listed),
\* when the flag is true and there are candidates; the candidates with no
\* total when the flag is false; "no amounts" when there are none.  The flag
\* is true iff the uppercased text contains one of the five keywords.
C3_OutcomeByFlagAndCandidates ==
    FacturaLeida =>
        /\ UltimoInforme.tipo \in {"total", "sin_total", "sin_montos"}
        /\ UltimoInforme.tipo = "total" <=> (C3Flag /\ montos # <<>>)
        /\ UltimoInforme.tipo = "sin_total" <=> (~C3Flag /\ montos # <<>>)
        /\ UltimoInforme.tipo = "sin_montos" <=> montos = <<>>
        /\ UltimoInforme.tipo = "total" =>
              /\ UltimoInforme.candidato \in Range(montos)
              /\ \A m \in Range(montos) : Le(m, UltimoInforme.candidato)
              /\ UltimoInforme.cantidades = C3Listed
        /\ UltimoInforme.tipo = "sin_total" =>
              /\ UltimoInforme.candidato = None
              /\ UltimoInforme.cantidades = C3Listed
        /\ UltimoInforme.tipo = "sin_montos" => UltimoInforme.candidato = None

\* sixteen amounts and a keyword: fifteen listed, the sixteenth the total
C3_Witness ==
    /\ FacturaLeida
    /\ C3Flag
    /\ Len(montos) = 16
    /\ UltimoInforme.tipo = "total"
    /\ Len(UltimoInforme.cantidades) = 15
    /\ UltimoInforme.candidato = V_16

-----------------------------------------------------------------------------
(* C4                                                                      *)

\* per line of the text, the value the line yields (None when it has none)
C4PorLinea ==
    LET lineas == splitlines(texto)
    IN SelectSeq([k \in 1..Len(lineas) |-> _extrae_ult_num_0_100(strip(lineas[k]))],
                 LAMBDA v : v.ok)

\* C4: with or without a header line, every value buscar_notas_finales
\* returns lies in [30, 100], and the values come in the order of the lines
\* they were taken from.
C4_NotasInRangeInLineOrder ==
    BoletinLeido =>
        /\ \A i \in 1..Len(notas) : Le(V_30, notas[i]) /\ Le(notas[i], V_100)
        /\ IsSubseq(notas, C4PorLinea)

\* fallback path: "Math 01 85", "2023 25", "Lengua 90"
C4_Witness ==
    /\ BoletinLeido
    /\ texto = JoinLines(<<L_math, L_anio, L_lengua>>)
    /\ StartIdx(splitlines(texto)) = 0
    /\ notas = <<V_85, V_90>>

-----------------------------------------------------------------------------
(* C5                                                                      *)

\* C5: with or without a header line, the list buscar_notas_finales returns
\* holds no two values with the same 2-decimal rounding.
C5_NoDuplicateRoundings ==
    BoletinLeido =>
        \A i, j \in 1..Len(notas) : i # j => round2(notas[i]) # round2(notas[j])

-----------------------------------------------------------------------------
(* C6                                                                      *)

C6EsCabecera(ln) ==
    \E i \in 1..Len(NOTA_FINAL_KEYS) : contains(NOTA_FINAL_KEYS[i], upper(ln))

\* HeaderIndex: the first header line, 0 when there is none
C6Header(lineas) ==
    CHOOSE h \in 0..Len(lineas) :
        /\ h > 0 => C6EsCabecera(lineas[h])
        /\ \A j \in 1..(IF h = 0 THEN Len(lineas) ELSE h - 1) : ~C6EsCabecera(lineas[j])

\* the first line after h that holds OBSERVACIONES, Len + 1 when none does
C6Terminator(lineas, h) ==
    CHOOSE e \in (h + 1)..(Len(lineas) + 1) :
        /\ e <= Len(lineas) => contains(OBSERVACIONES, upper(lineas[e]))
        /\ \A j \in (h + 1)..(e - 1) : ~contains(OBSERVACIONES, upper(lineas[j]))

\* C6: every value buscar_notas_finales returns is taken from a non-blank
\* line strictly after the first header line (from the first line on when
\* there is no header) and strictly before the first later line that holds
\* OBSERVACIONES.
C6_ValuesFromSection ==
    BoletinLeido =>
        LET lineas == splitlines(texto)
            h == C6Header(lineas)
            e == C6Terminator(lineas, h)
        IN \A i \in 1..Len(notas) :
              \E k \in (h + 1)..(e - 1) :
                  /\ strip(lineas[k]) # <<>>
                  /\ _extrae_ult_num_0_100(strip(lineas[k])) = notas[i]

\* NOTA FINAL / Math 01 85 / Science 02 91 / OBSERVACIONES: good
C6_Witness ==
    /\ BoletinLeido
    /\ texto = Ej_Boletin
    /\ C6Header(splitlines(texto)) = 1
    /\ C6Terminator(splitlines(texto), 1) = 4
    /\ notas = <<V_85, V_91>>

-----------------------------------------------------------------------------
(* C7                                                                      *)

C7NumChar(c) == isdigit(c) \/ issep(c)

\* the complete numbers written on a line: the runs of digits, '.' and ','
\* that begin and end with a digit and that no neighbouring digit, nor a
\* separator followed or preceded by a digit, extends
C7CompleteNumbers(ln) ==
    {SubSeq(ln, a, b) : <<a, b>> \in
        {ab \in (1..Len(ln)) \X (1..Len(ln)) :
            /\ ab[1] <= ab[2]
            /\ isdigit(ln[ab[1]]) /\ isdigit(ln[ab[2]])
            /\ \A j \in ab[1]..ab[2] : C7NumChar(ln[j])
            /\ \A j \in ab[1]..(ab[2] - 1) : ~(issep(ln[j]) /\ issep(ln[j + 1]))
            /\ ~(ab[1] > 1 /\ isdigit(ln[ab[1] - 1]))
            /\ ~(ab[1] > 2 /\ issep(ln[ab[1] - 1]) /\ isdigit(ln[ab[1] - 2]))
            /\ ~(ab[2] < Len(ln) /\ isdigit(ln[ab[2] + 1]))
            /\ ~(ab[2] + 1 < Len(ln) /\ issep(ln[ab[2] + 1]) /\ isdigit(ln[ab[2] + 2]))}}

\* C7: without a header line, every value buscar_notas_finales returns lies
\* in [30, 100] and is the value of a complete number written on a line: a
\* number outside the range contributes nothing, neither as a whole nor
\* through a fragment of its digits.
C7_OnlyCompleteNumbers ==
    (BoletinLeido /\ StartIdx(splitlines(texto)) = 0) =>
        \A i \in 1..Len(notas) :
            /\ Le(V_30, notas[i]) /\ Le(notas[i], V_100)
            /\ \E ln \in Range(splitlines(texto)) :
                  \E num \in C7CompleteNumbers(ln) : _normaliza_num(num) = notas[i]

-----------------------------------------------------------------------------
(* C8                                                                      *)

C8Informes(c) == SelectSeq(salida, LAMBDA x : x.carpeta = c /\ x.archivo # <<>>)

C8Avisos(c) == {x.informe.tipo : x \in {y \in Range(salida) : y.carpeta = c /\ y.archivo = <<>>}}

\* C8: in a batch run the documents are processed one at a time in listing
\* order; a document whose OCR raises gets an error line of its own and
\* every other document, before and after it, is processed and reported;
\* nothing a document raises ends the run; a missing invoice folder is
\* reported and the grade batch runs all the same.
C8_PerDocumentIsolation ==
    /\ pc = "abortado" => \E c \in Carpetas : carpetas[c] = "ilegible"
    /\ \A c \in Carpetas :
          /\ Len(C8Informes(c)) = Len(ocr[c])
          /\ Len(ocr[c]) <= Len(archivos[c])
          /\ \A i \in 1..Len(ocr[c]) :
                /\ C8Informes(c)[i].archivo = archivos[c][i]
                /\ C8Informes(c)[i].informe.tipo = "error" <=> ocr[c][i].raises
    /\ pc = "correr_calificaciones" =>
          Len(ocr[CARPETA_FACTURAS]) = Len(archivos[CARPETA_FACTURAS])
    /\ pc = "fin" => \A c \in Carpetas : Len(ocr[c]) = Len(archivos[c])
    /\ (carpetas[CARPETA_FACTURAS] = "falta" /\ pc # "correr_facturas") =>
          /\ "carpeta_no_existe" \in C8Avisos(CARPETA_FACTURAS)
          /\ pc \in {"correr_calificaciones", "calificaciones", "fin", "abortado"}
          /\ pc # "correr_calificaciones" => "revisando" \in C8Avisos(CARPETA_CALIFICACIONES)

\* three invoices, the second of which raised, and the grade batch done
C8_Witness ==
    /\ pc = "fin"
    /\ Len(ocr[CARPETA_FACTURAS]) = 3
    /\ ~ocr[CARPETA_FACTURAS][1].raises
    /\ ocr[CARPETA_FACTURAS][2].raises
    /\ ~ocr[CARPETA_FACTURAS][3].raises
    /\ C8Informes(CARPETA_FACTURAS)[1].informe.tipo = "total"
    /\ C8Informes(CARPETA_FACTURAS)[2].informe.tipo = "error"
    /\ C8Informes(CARPETA_FACTURAS)[3].informe.tipo = "total"
    /\ Len(C8Informes(CARPETA_CALIFICACIONES)) > 0

-----------------------------------------------------------------------------
(* C9                                                                      *)

C9EnRango0a100(num) ==
    LET v == _normaliza_num(num) IN v.ok /\ Le(FromNat(0), v) /\ Le(v, V_100)

\* the value of the rightmost number of the line that lies in [0, 100]
C9Rightmost(ln) ==
    LET numeros == FindallNumeros(ln, 1)
        ks == {k \in 1..Len(numeros) : C9EnRango0a100(numeros[k])}
    IN IF ks = {} THEN None
       ELSE _normaliza_num(numeros[CHOOSE k \in ks : \A k2 \in ks : k2 <= k])

C9Grade(ln) ==
    LET v == C9Rightmost(ln) IN v.ok /\ Le(V_30, v) /\ Le(v, V_100)

\* C9: each line contributes at most one value, fixed before the [30, 100]
\* filter: the rightmost number of the line within [0, 100]; a line whose
\* rightmost such number is below 30 contributes nothing, even if a number
\* to its left lies in [30, 100] ("85 12" yields no grade).
C9_RightmostDecides ==
    BoletinLeido =>
        LET lineas == splitlines(texto)
            porLinea == SelectSeq([k \in 1..Len(lineas) |-> C9Rightmost(lineas[k])],
                                  LAMBDA v : v.ok /\ Le(V_30, v) /\ Le(v, V_100))
        IN /\ IsSubseq(notas, porLinea)
           /\ Len(notas) <= Cardinality({k \in 1..Len(lineas) : C9Grade(lineas[k])})
           /\ texto = L_85_12 => notas = <<>>

C9_Witness ==
    /\ BoletinLeido
    /\ texto = L_85_12
    /\ C9Rightmost(texto) # None
    /\ notas = <<>>

-----------------------------------------------------------------------------
(* C10                                                                     *)

C10Final == <<"F", "I", "N", "A", "L">>

C10TieneFinal(ln) == contains(C10Final, upper(ln))

\* C10: the header search looks only for FINAL and never for OBSERVACIONES:
\* the first line that holds FINAL is the header even when it holds
\* OBSERVACIONES too, the grades of the lines after it (up to the next
\* OBSERVACIONES line) are collected, and an OBSERVACIONES line before the
\* header does not stop the scan.
C10_HeaderBeforeTerminator ==
    BoletinLeido =>
        LET lineas == splitlines(texto)
            hs == {k \in 1..Len(lineas) : C10TieneFinal(lineas[k])}
        IN /\ \A k \in 1..Len(lineas) :
                 _es_linea_cabecera_notas(lineas[k]) <=> k \in hs
           /\ hs # {} =>
                 LET h == CHOOSE k \in hs : \A k2 \in hs : k <= k2
                 IN \A k \in (h + 1)..Len(lineas) :
                       (/\ \A j \in (h + 1)..k :
                              ~contains(OBSERVACIONES, upper(lineas[j]))
                        /\ C9Grade(lineas[k]))
                       => C9Rightmost(lineas[k]) \in Range(notas)

\* OBSERVACIONES: good / OBSERVACIONES FINALES / Math 01 85
C10_Witness ==
    /\ BoletinLeido
    /\ texto = JoinLines(<<L_obs, L_obs_finales, L_math>>)
    /\ StartIdx(splitlines(texto)) = 2
    /\ notas = <<V_85>>

====
